---- MODULE Spec2Model ----
(***************************************************************************)
(* Model of the course recommender: backend/recommender.py (the singleton  *)
(* metaclass, the text normalizer, the corpus loader, the TF-IDF index and *)
(* the top-K query) and backend/app.py (startup and the /recommend route). *)
(*                                                                         *)
(* Strings are sequences of one-character strings.  A value that may be    *)
(* missing is a tagged record: Text(s), Num(n), NaN (pandas' missing cell) *)
(* or None (Python's None).  Row indices are 1-based here, 0-based in the  *)
(* code.                                                                   *)
(***************************************************************************)
EXTENDS Integers, Sequences, FiniteSets, TLC

VARIABLES
    fs,          \* the file system: path -> file (never changes)
    np_tie,      \* numpy's implementation-defined order among equal keys
    heap,        \* the Recommender objects that finished __init__: id -> object
    instances,   \* _SingletonMeta._instances, as the id stored for Recommender
    lock,        \* _SingletonMeta._lock: Free or the thread holding it
    tpc,         \* each thread's position inside _SingletonMeta.__call__
    targ,        \* each thread's csv_path argument
    calls,       \* how many create_recommender calls each thread has made
    outcome,     \* each thread's last call: the id it returned, NoReco if none
    exc,         \* each thread's last call: the exception it raised, "" if none
    builds,      \* how many times _load_data ran to completion
    returned,    \* every instance id some create_recommender call returned
    appPc,       \* app.py: "import", "serving" or "crashed"
    reco,        \* app.py's module global reco: NoReco or an instance id
    request,     \* the last /recommend request handled
    response,    \* the response to it
    normIn,      \* normalizer harness: the argument
    normPc,      \* normalizer harness: how many times _clean_text was applied
    normOut,     \* normalizer harness: _clean_text(normIn)
    normOut2     \* normalizer harness: _clean_text(normOut)

vars == <<fs, np_tie, heap, instances, lock, tpc, targ, calls, outcome, exc, builds,
          returned, appPc, reco, request, response, normIn, normPc, normOut,
          normOut2>>

singletonVars == <<heap, instances, lock, tpc, targ, calls, outcome, exc, builds, returned>>
appVars == <<appPc, reco, request, response>>
normVars == <<normIn, normPc, normOut, normOut2>>

(***************************************************************************)
(* Values.                                                                 *)
(***************************************************************************)
Text(s) == [kind |-> "str", val |-> s]
Num(n) == [kind |-> "num", val |-> n]
NaN == [kind |-> "nan", val |-> 0]
None == [kind |-> "none", val |-> 0]

\* pd.isna(v)
IsNa(v) == v.kind \in {"nan", "none"}

LowerChars == <<"a","b","c","d","e","f","g","h","i","j","k","l","m",
                "n","o","p","q","r","s","t","u","v","w","x","y","z">>
UpperChars == <<"A","B","C","D","E","F","G","H","I","J","K","L","M",
                "N","O","P","Q","R","S","T","U","V","W","X","Y","Z">>
DigitChars == <<"0","1","2","3","4","5","6","7","8","9">>

Range(f) == {f[i] : i \in DOMAIN f}

\* the character class [a-z0-9 ] of the first regular expression
AllowedChars == Range(LowerChars) \cup Range(DigitChars) \cup {" "}

\* the characters \s matches, among those the model uses
SpaceChars == {" ", "\t", "\n"}

\* str.lower(), one character
LowerChar(c) ==
    IF c \in Range(UpperChars)
    THEN LowerChars[CHOOSE i \in DOMAIN UpperChars : UpperChars[i] = c]
    ELSE c

\* str.lower()
Lower(s) == [i \in 1..Len(s) |-> LowerChar(s[i])]

\* s without its longest prefix of characters in class
RECURSIVE DropRun(_, _)
DropRun(s, class) ==
    IF s # <<>> /\ Head(s) \in class THEN DropRun(Tail(s), class) ELSE s

\* re.sub(r"[^a-z0-9 ]+", " ", s)
RECURSIVE SubNotAllowed(_)
SubNotAllowed(s) ==
    IF s = <<>> THEN <<>>
    ELSE IF Head(s) \in AllowedChars
         THEN <<Head(s)>> \o SubNotAllowed(Tail(s))
         ELSE <<" ">> \o SubNotAllowed(DropRun(s, Range(s) \ AllowedChars))

\* a mutant: whitespace runs are left as they are
CollapseSpace_Skipped(s) == s

\* re.sub(r"\s+", " ", s)
RECURSIVE CollapseSpace(_)
CollapseSpace(s) ==
    IF s = <<>> THEN <<>>
    ELSE IF Head(s) \in SpaceChars
         THEN <<" ">> \o CollapseSpace(DropRun(s, SpaceChars))
         ELSE <<Head(s)>> \o CollapseSpace(Tail(s))

\* s without its longest suffix of whitespace
RECURSIVE RStrip(_)
RStrip(s) ==
    IF s # <<>> /\ s[Len(s)] \in SpaceChars
    THEN RStrip(SubSeq(s, 1, Len(s) - 1))
    ELSE s

\* str.strip()
Strip(s) == RStrip(DropRun(s, SpaceChars))

\* str(v) of a value the normalizer is given
PyStr(v) == IF v.kind = "str" THEN v.val ELSE <<>>

\* Recommender._clean_text
CleanText(v) ==
    IF IsNa(v) THEN <<>>
    ELSE Strip(CollapseSpace(SubNotAllowed(Lower(PyStr(v)))))

(***************************************************************************)
(* Small helpers.                                                          *)
(***************************************************************************)
Min2(a, b) == IF a <= b THEN a ELSE b
Max2(a, b) == IF a >= b THEN a ELSE b
MinOf(S) == CHOOSE x \in S : \A y \in S : x <= y
MaxOf(S) == CHOOSE x \in S : \A y \in S : x >= y

RECURSIVE SumFn(_, _)
SumFn(f, S) ==
    IF S = {} THEN 0
    ELSE LET x == CHOOSE y \in S : TRUE
         IN f[x] + SumFn(f, S \ {x})

\* sub in s, for strings
Contains(s, sub) ==
    \E i \in 1..(Len(s) - Len(sub) + 1) : SubSeq(s, i, i + Len(sub) - 1) = sub

(***************************************************************************)
(* The data frame: column names and rows of cells, aligned by position.    *)
(***************************************************************************)
\* mapping.get(key) when the key is absent: None, which is falsy like ""
NoCol == <<>>

TitleCandidates == << <<"t", "i", "t", "l", "e">>,
                      <<"c", "o", "u", "r", "s", "e", "_", "t", "i", "t", "l", "e">>,
                      <<"c", "o", "u", "r", "s", "e", " ", "n", "a", "m", "e">>,
                      <<"n", "a", "m", "e">> >>
UrlCandidates == << <<"u", "r", "l">>,
                    <<"c", "o", "u", "r", "s", "e", "_", "u", "r", "l">>,
                    <<"l", "i", "n", "k">>,
                    <<"c", "o", "u", "r", "s", "e", " ", "l", "i", "n", "k">> >>
RatingCandidates == << <<"r", "a", "t", "i", "n", "g">>,
                       <<"a", "v", "g", "_", "r", "a", "t", "i", "n", "g">>,
                       <<"a", "v", "g", " ", "r", "a", "t", "i", "n", "g">>,
                       <<"r", "e", "v", "i", "e", "w", "s">> >>
DescMarkers == { <<"d", "e", "s", "c">>,
                 <<"h", "e", "a", "d", "l", "i", "n", "e">>,
                 <<"s", "u", "b", "t", "i", "t", "l", "e">> }
TitleColumn == <<"_", "_", "t", "i", "t", "l", "e", "_", "_">>

\* the position of column col in df
ColIndex(df, col) == MinOf({i \in DOMAIN df.columns : df.columns[i] = col})

\* df[col] at row i
Cell(df, i, col) == df.rows[i][ColIndex(df, col)]

\* cols = {c.lower(): c for c in df.columns}: a later column replaces an
\* earlier one of the same lower-cased name
LowerCols(df) ==
    [l \in {Lower(c) : c \in Range(df.columns)} |->
        df.columns[MaxOf({i \in DOMAIN df.columns : Lower(df.columns[i]) = l})]]

\* for cand in cands: if cand in cols: mapping[key] = cols[cand]; break
FirstCandidate(cands, cols) ==
    LET hits == {i \in DOMAIN cands : cands[i] \in DOMAIN cols}
    IN IF hits = {} THEN NoCol ELSE cols[cands[MinOf(hits)]]

\* Recommender._detect_columns; a key the code leaves out of the mapping
\* holds NoCol
DetectColumns(df) ==
    LET cols == LowerCols(df)
        descs == {i \in DOMAIN df.columns :
                    \E m \in DescMarkers : Contains(Lower(df.columns[i]), m)}
    IN [title |-> FirstCandidate(TitleCandidates, cols),
        url |-> FirstCandidate(UrlCandidates, cols),
        rating |-> FirstCandidate(RatingCandidates, cols),
        desc |-> IF descs = {} THEN NoCol ELSE df.columns[MinOf(descs)]]

\* Series.astype(str), one cell: a missing cell becomes the string "nan"
\* (pandas before 3.0)
AsTypeStr(v) ==
    CASE v.kind = "str" -> v
      [] v.kind = "num" -> Text(<<DigitChars[v.val + 1], ".", "0">>)
      [] OTHER -> Text(<<"n", "a", "n">>)

\* Series.fillna(""), one cell
FillNa(v) == IF IsNa(v) THEN Text(<<>>) ELSE v

\* title_col = mapping.get("title") or df.columns[0]
TitleColOf(df, mapping) ==
    IF mapping.title # NoCol THEN mapping.title ELSE df.columns[1]

\* df["__title__"] = df[title_col].astype(str)
WithTitleColumn(df, title_col) ==
    [columns |-> Append(df.columns, TitleColumn),
     rows |-> [i \in DOMAIN df.rows |->
                 Append(df.rows[i], AsTypeStr(Cell(df, i, title_col)))]]

\* combined, before and after combined.map(self._clean_text), one row
CombinedRaw(df, i, desc_col) ==
    LET title == FillNa(Cell(df, i, TitleColumn))
    IN IF desc_col # NoCol
       THEN Text(title.val \o <<" ">> \o FillNa(AsTypeStr(Cell(df, i, desc_col))).val)
       ELSE title

Combined(df, desc_col) ==
    [i \in DOMAIN df.rows |-> CleanText(CombinedRaw(df, i, desc_col))]

(***************************************************************************)
(* TfidfVectorizer(ngram_range=(1, 2), max_features=20000) and             *)
(* linear_kernel.  The weights are integers: Idf is a stand-in for         *)
(* ln((1 + N) / (1 + df)) + 1 that falls as df rises and is 1 for a term   *)
(* of every document, and the rows are not L2-normalised.                  *)
(***************************************************************************)
MaxFeatures == 20000

\* the longest prefix of s without a space
Word(s) == SubSeq(s, 1, Len(s) - Len(DropRun(s, Range(s) \ {" "})))

\* the tokens of token_pattern \b\w\w+\b in a cleaned text: the runs of
\* [a-z0-9] of two characters or more
RECURSIVE Tokens(_)
Tokens(s) ==
    IF s = <<>> THEN <<>>
    ELSE IF Head(s) = " " THEN Tokens(Tail(s))
    ELSE LET w == Word(s)
             rest == Tokens(SubSeq(s, Len(w) + 1, Len(s)))
         IN IF Len(w) >= 2 THEN <<w>> \o rest ELSE rest

\* the unigrams, then the bigrams
Ngrams(tokens) ==
    tokens \o [i \in 1..(Len(tokens) - 1) |-> tokens[i] \o <<" ">> \o tokens[i + 1]]

Terms(doc) == Ngrams(Tokens(doc))

Count(seq, x) == Cardinality({i \in DOMAIN seq : seq[i] = x})

\* the terms kept: all of them, or the max_features most frequent
Vocabulary(docs) ==
    LET all == UNION {Range(Terms(docs[i])) : i \in DOMAIN docs}
        total(t) == SumFn([i \in DOMAIN docs |-> Count(Terms(docs[i]), t)], DOMAIN docs)
    IN IF Cardinality(all) <= MaxFeatures THEN all
       ELSE CHOOSE S \in SUBSET all :
              /\ Cardinality(S) = MaxFeatures
              /\ \A t \in S, u \in all \ S : total(t) >= total(u)

Idf(docs, t) ==
    Len(docs) + 1 - Cardinality({i \in DOMAIN docs : Count(Terms(docs[i]), t) > 0})

\* vectorizer.transform([doc])
Transform(vectorizer, doc) ==
    LET terms == Terms(doc)
    IN [t \in vectorizer.vocabulary |-> Count(terms, t) * vectorizer.idf[t]]

\* linear_kernel(q_vec, tfidf_matrix).flatten()
LinearKernel(q_vec, matrix) ==
    [i \in DOMAIN matrix |->
        SumFn([t \in DOMAIN q_vec |-> q_vec[t] * matrix[i][t]], DOMAIN q_vec)]

(***************************************************************************)
(* Recommender.__init__ and _load_data.                                    *)
(***************************************************************************)
Raise(e) == [ok |-> FALSE, error |-> e]

\* Recommender(csv_path): the object __init__ leaves, or the exception
LoadData(csv_path, file) ==
    IF file.kind = "absent" THEN Raise("FileNotFoundError")
    ELSE IF file.kind # "table" THEN Raise("ParserError")
    ELSE LET df0 == [columns |-> file.columns, rows |-> file.rows]
             mapping == DetectColumns(df0)
             df == WithTitleColumn(df0, TitleColOf(df0, mapping))
             combined == Combined(df, mapping.desc)
             vocabulary == Vocabulary(combined)
             vectorizer == [vocabulary |-> vocabulary,
                            idf |-> [t \in vocabulary |-> Idf(combined, t)]]
         IN IF vocabulary = {} THEN Raise("ValueError")
            ELSE [ok |-> TRUE,
                  self |-> [csv_path |-> csv_path,
                            df |-> df,
                            vectorizer |-> vectorizer,
                            tfidf_matrix |->
                                [i \in DOMAIN combined |-> Transform(vectorizer, combined[i])],
                            text_fields |-> None,
                            url_col |-> mapping.url,
                            rating_col |-> mapping.rating,
                            mapping |-> mapping]]

(***************************************************************************)
(* Recommender.recommend.                                                  *)
(***************************************************************************)
DefaultTopN == 4

\* whether index i comes before index j when their keys are equal
TieBefore(i, j) == IF np_tie = "low" THEN i <= j ELSE i >= j

\* the index in S of the smallest key
ArgMin(keys, S) ==
    CHOOSE i \in S :
        \A j \in S : keys[i] < keys[j] \/ (keys[i] = keys[j] /\ TieBefore(i, j))

\* the indices of the m smallest keys among S, in rising order of key
RECURSIVE SmallestFirst(_, _, _)
SmallestFirst(keys, S, m) ==
    IF m <= 0 \/ S = {} THEN <<>>
    ELSE LET i == ArgMin(keys, S)
         IN <<i>> \o SmallestFirst(keys, S \ {i}, m - 1)

\* the elements of the set S of integers, rising
RECURSIVE Ascending(_)
Ascending(S) ==
    IF S = {} THEN <<>> ELSE <<MinOf(S)>> \o Ascending(S \ {MinOf(S)})

\* a mutant: the scores are partitioned without being negated
ArgPartition_NotNegated(keys, k) ==
    LET pos == [i \in DOMAIN keys |-> -keys[i]]
        front == SmallestFirst(pos, DOMAIN keys, k)
    IN front \o Ascending(DOMAIN keys \ Range(front))

\* np.argpartition(keys, range(k)): the k smallest keys sit sorted in the
\* first k places, the other indices follow (here in rising index order);
\* with an empty range nothing moves
ArgPartition(keys, k) ==
    LET front == SmallestFirst(keys, DOMAIN keys, k)
    IN front \o Ascending(DOMAIN keys \ Range(front))

\* seq[:stop]
SliceTo(seq, stop) ==
    SubSeq(seq, 1, IF stop >= 0 THEN Min2(stop, Len(seq))
                   ELSE Max2(0, Len(seq) + stop))

\* a mutant: the final sort orders by score instead of by negated score
FinalSort_Ascending(keys, top_idx) ==
    LET picked == [p \in DOMAIN top_idx |-> -keys[top_idx[p]]]
        order == SmallestFirst(picked, DOMAIN top_idx, Len(top_idx))
    IN [p \in DOMAIN top_idx |-> top_idx[order[p]]]

\* top_idx[np.argsort(keys[top_idx])]
FinalSort(keys, top_idx) ==
    LET picked == [p \in DOMAIN top_idx |-> keys[top_idx[p]]]
        order == SmallestFirst(picked, DOMAIN top_idx, Len(top_idx))
    IN [p \in DOMAIN top_idx |-> top_idx[order[p]]]

\* a mutant: top_n = int(top_n)
ClampTopN_Unclamped(top_n) == top_n

\* top_n = max(1, int(top_n))
ClampTopN(top_n) == Max2(1, top_n)

\* the top indices of recommend: argpartition on the negated scores, the
\* slice [:top_n], then the final sort
TopIdx(cosine_similarities, top_n) ==
    LET neg == [i \in DOMAIN cosine_similarities |-> -cosine_similarities[i]]
        k == Min2(top_n, Len(cosine_similarities))
    IN FinalSort(neg, SliceTo(ArgPartition(neg, k), top_n))

\* float(x): a number, or ValueError for text
PyFloat(v) == IF v.kind = "num" THEN v ELSE [kind |-> "ValueError", val |-> 0]

\* row[self.url_col] if self.url_col else None
UrlOf(self, i) ==
    IF self.url_col # NoCol THEN Cell(self.df, i, self.url_col) ELSE None

\* float(row[self.rating_col]) if (self.rating_col and not pd.isna(...)) else None
RatingOf(self, i) ==
    IF self.rating_col # NoCol /\ ~IsNa(Cell(self.df, i, self.rating_col))
    THEN PyFloat(Cell(self.df, i, self.rating_col)) ELSE None

\* the dict recommend builds for row i
Hit(self, i, cosine_similarities) ==
    [title |-> Cell(self.df, i, TitleColumn),
     score |-> cosine_similarities[i],
     rating |-> RatingOf(self, i),
     url |-> UrlOf(self, i)]

Returns(results, top_idx) == [raised |-> FALSE, results |-> results, top_idx |-> top_idx]
Raises == [raised |-> TRUE, results |-> <<>>, top_idx |-> <<>>]

\* Recommender.recommend(query, top_n): the list it returns (with the row
\* index of each hit kept beside it), or that it raised
Recommend(self, query, top_n) ==
    LET q == CleanText(query)
        cosine_similarities ==
            LinearKernel(Transform(self.vectorizer, q), self.tfidf_matrix)
        top_idx == TopIdx(cosine_similarities, ClampTopN(top_n))
        results == [p \in DOMAIN top_idx |-> Hit(self, top_idx[p], cosine_similarities)]
    IN IF q = <<>> THEN Returns(<<>>, <<>>)
       ELSE IF Len(cosine_similarities) = 0 THEN Returns(<<>>, <<>>)
       ELSE IF \E p \in DOMAIN results : results[p].rating.kind = "ValueError"
            THEN Raises
            ELSE Returns(results, top_idx)

\* a mutant: recommend sorts the data frame in place, hits first
RecommendEffect_SortsFrame(self, query, top_n) ==
    LET r == Recommend(self, query, top_n)
        order == r.top_idx \o Ascending(DOMAIN self.df.rows \ Range(r.top_idx))
    IN IF r.raised THEN self
       ELSE [self EXCEPT !.df.rows = [p \in DOMAIN order |-> self.df.rows[order[p]]]]

\* the object after recommend ran on it: recommend assigns to no attribute
\* and calls nothing that changes df, vectorizer or tfidf_matrix
RecommendEffect(self, query, top_n) == self

(***************************************************************************)
(* _SingletonMeta.__call__, one step at a time, for thread t.              *)
(***************************************************************************)
Free == 0
NoReco == 0

\* create_recommender(csv_path) is called: Recommender(csv_path) enters
\* _SingletonMeta.__call__
Enter(t, csv_path) ==
    /\ tpc' = [tpc EXCEPT ![t] = "acquire"]
    /\ targ' = [targ EXCEPT ![t] = csv_path]
    /\ calls' = [calls EXCEPT ![t] = @ + 1]
    /\ outcome' = [outcome EXCEPT ![t] = NoReco]
    /\ exc' = [exc EXCEPT ![t] = ""]
    /\ UNCHANGED <<heap, instances, lock, builds, returned>>

\* a mutant: the lock is not taken
Acquire_NoLock(t) ==
    /\ tpc[t] = "acquire"
    /\ tpc' = [tpc EXCEPT ![t] = "check"]
    /\ UNCHANGED <<fs, np_tie, heap, instances, lock, targ, calls, outcome, exc, builds,
                   returned, appVars, normVars>>

\* with cls._lock: (entry)
Acquire(t) ==
    /\ tpc[t] = "acquire"
    /\ lock = Free
    /\ lock' = t
    /\ tpc' = [tpc EXCEPT ![t] = "check"]
    /\ UNCHANGED <<fs, np_tie, heap, instances, targ, calls, outcome, exc, builds,
                   returned, appVars, normVars>>

\* if cls not in cls._instances:
Check(t) ==
    /\ tpc[t] = "check"
    /\ tpc' = [tpc EXCEPT ![t] = IF instances = NoReco THEN "build" ELSE "release"]
    /\ UNCHANGED <<fs, np_tie, heap, instances, lock, targ, calls, outcome, exc, builds,
                   returned, appVars, normVars>>

\* cls._instances[cls] = super().__call__(*args, **kwargs): __init__ runs
\* _load_data; the instance is stored only when it returns
Build(t) ==
    /\ tpc[t] = "build"
    /\ LET made == LoadData(targ[t], fs[targ[t]])
       IN IF made.ok
          THEN /\ heap' = Append(heap, made.self)
               /\ instances' = Len(heap) + 1
               /\ builds' = builds + 1
               /\ tpc' = [tpc EXCEPT ![t] = "release"]
               /\ exc' = exc
          ELSE /\ tpc' = [tpc EXCEPT ![t] = "unwind"]
               /\ exc' = [exc EXCEPT ![t] = made.error]
               /\ UNCHANGED <<heap, instances, builds>>
    /\ UNCHANGED <<fs, np_tie, lock, targ, calls, outcome, returned, appVars, normVars>>

\* with cls._lock: (normal exit)
Release(t) ==
    /\ tpc[t] = "release"
    /\ lock' = Free
    /\ tpc' = [tpc EXCEPT ![t] = "return"]
    /\ UNCHANGED <<fs, np_tie, heap, instances, targ, calls, outcome, exc, builds,
                   returned, appVars, normVars>>

\* with cls._lock: (exit on the exception of __init__, which propagates)
Unwind(t) ==
    /\ tpc[t] = "unwind"
    /\ lock' = Free
    /\ tpc' = [tpc EXCEPT ![t] = "raised"]
    /\ UNCHANGED <<fs, np_tie, heap, instances, targ, calls, outcome, exc, builds,
                   returned, appVars, normVars>>

\* return cls._instances[cls]
Return(t) ==
    /\ tpc[t] = "return"
    /\ outcome' = [outcome EXCEPT ![t] = instances]
    /\ returned' = returned \cup {instances}
    /\ tpc' = [tpc EXCEPT ![t] = "returned"]
    /\ UNCHANGED <<fs, np_tie, heap, instances, lock, targ, calls, exc, builds,
                   appVars, normVars>>

(***************************************************************************)
(* The files the model reads.                                              *)
(***************************************************************************)
MaxRows == 3
MaxFieldRows == 2

AbsentFile == [kind |-> "absent", columns |-> <<>>, rows |-> <<>>]
GarbageFile == [kind |-> "garbage", columns |-> <<>>, rows |-> <<>>]
Table(columns, rows) == [kind |-> "table", columns |-> columns, rows |-> rows]

\* a catalog of titles only, for the ranking: every choice of titles for
\* up to MaxRows rows ("C!" has no token of two characters); the order
\* among equal scores is explored on these
Titles == { <<"P", "y">>, <<"P", "y", " ", " ", "G", "o">>, <<"C", "!">> }

RankingFiles ==
    {Table(<< <<"T", "i", "t", "l", "e">> >>, rows) :
        rows \in UNION {[1..n -> {<<Text(t)>> : t \in Titles}] : n \in 0..MaxRows}}

\* a catalog whose first column is no title candidate, with any of the
\* optional columns, and any cell of an optional column missing
OptionalColumns == [url |-> <<"U", "R", "L">>,
                    rating |-> <<"R", "a", "t", "i", "n", "g">>,
                    desc |-> <<"H", "e", "a", "d", "l", "i", "n", "e">>]
OptionalCells == [url |-> {NaN, Text(<<"u">>)},
                  rating |-> {NaN, Num(4)},
                  desc |-> {NaN, Text(<<"g", "o">>)}]

FieldColumns(present) ==
    << <<"C", "o", "u", "r", "s", "e">> >>
        \o (IF "url" \in present THEN <<OptionalColumns.url>> ELSE <<>>)
        \o (IF "rating" \in present THEN <<OptionalColumns.rating>> ELSE <<>>)
        \o (IF "desc" \in present THEN <<OptionalColumns.desc>> ELSE <<>>)

FieldRows(present) ==
    {<<Text(<<"P", "y">>)>>
        \o (IF "url" \in present THEN <<u>> ELSE <<>>)
        \o (IF "rating" \in present THEN <<r>> ELSE <<>>)
        \o (IF "desc" \in present THEN <<d>> ELSE <<>>) :
     u \in OptionalCells.url, r \in OptionalCells.rating, d \in OptionalCells.desc}

FieldFiles ==
    UNION {{Table(FieldColumns(present), rows) :
                rows \in UNION {[1..n -> FieldRows(present)] : n \in 1..MaxFieldRows}} :
           present \in SUBSET {"url", "rating", "desc"}}

CsvFiles == {AbsentFile, GarbageFile} \cup RankingFiles \cup FieldFiles

(***************************************************************************)
(* backend/app.py.                                                         *)
(***************************************************************************)
CSV_PATH == "../data/udemy_courses.csv"
MainThread == 0

NoRequest == [q |-> None, name |-> None, query |-> None, top_n |-> None]
NoResponse == [status |-> 0, error |-> "", query |-> None, results |-> <<>>, top_idx |-> <<>>]

\* bool(v), for a request argument
Truthy(v) == v.kind = "str" /\ v.val # <<>>

\* a or b
Or(a, b) == IF Truthy(a) THEN a ELSE b

RECURSIVE DigitsValue(_)
DigitsValue(s) ==
    IF s = <<>> THEN 0
    ELSE 10 * DigitsValue(SubSeq(s, 1, Len(s) - 1))
         + (CHOOSE d \in 0..9 : DigitChars[d + 1] = s[Len(s)])

\* int(s) of a string: an optional sign and digits, or ValueError
ParseInt(s) ==
    LET signed == s # <<>> /\ Head(s) \in {"-", "+"}
        digits == IF signed THEN Tail(s) ELSE s
    IN IF digits = <<>> \/ ~(Range(digits) \subseteq Range(DigitChars))
       THEN [ok |-> FALSE, val |-> 0]
       ELSE [ok |-> TRUE,
             val |-> IF signed /\ Head(s) = "-" THEN -DigitsValue(digits)
                     ELSE DigitsValue(digits)]

\* try: top_n = int(request.args.get("top_n", 4)) except Exception: top_n = 4
TopNOf(arg) ==
    IF arg.kind # "str" THEN DefaultTopN
    ELSE IF ParseInt(arg.val).ok THEN ParseInt(arg.val).val ELSE DefaultTopN

\* q = request.args.get("q") or request.args.get("name") or request.args.get("query")
QueryOf(req) == Or(Or(req.q, req.name), req.query)

Error400 ==
    [status |-> 400, error |-> "missing query parameter",
     query |-> None, results |-> <<>>, top_idx |-> <<>>]
Error500 ==
    [status |-> 500, error |-> "internal server error",
     query |-> None, results |-> <<>>, top_idx |-> <<>>]
Ok200(q, r) ==
    [status |-> 200, error |-> "", query |-> q, results |-> r.results, top_idx |-> r.top_idx]

\* whether the route gets as far as calling reco.recommend
CallsRecommend(req) == Truthy(QueryOf(req)) /\ reco # NoReco

\* the route recommend(): the response (with the row index of each hit
\* kept beside the results)
Handle(req) ==
    LET q == QueryOf(req)
    IN IF ~Truthy(q) THEN Error400
       ELSE IF reco = NoReco THEN Error500
       ELSE LET r == Recommend(heap[reco], q, TopNOf(req.top_n))
            IN IF r.raised THEN Error500 ELSE Ok200(q, r)

\* reco = create_recommender(CSV_PATH), entered
AppImport ==
    /\ appPc = "import"
    /\ tpc[MainThread] = "idle"
    /\ Enter(MainThread, CSV_PATH)
    /\ appPc' = "loading"
    /\ UNCHANGED <<fs, np_tie, reco, request, response, normVars>>

\* reco = create_recommender(CSV_PATH) returned: the module finishes
\* loading, the route is registered and the server starts
AppLoaded ==
    /\ appPc = "loading"
    /\ tpc[MainThread] = "returned"
    /\ reco' = outcome[MainThread]
    /\ appPc' = "serving"
    /\ UNCHANGED <<fs, np_tie, singletonVars, request, response, normVars>>

\* a mutant: the except clause does not re-raise
AppInitFailed_Swallowed ==
    /\ appPc = "loading"
    /\ tpc[MainThread] = "raised"
    /\ appPc' = "serving"
    /\ UNCHANGED <<fs, np_tie, singletonVars, reco, request, response, normVars>>

\* except FileNotFoundError / except Exception: print and raise; the import
\* of the module fails
AppInitFailed ==
    /\ appPc = "loading"
    /\ tpc[MainThread] = "raised"
    /\ appPc' = IF exc[MainThread] = "FileNotFoundError"
                THEN "crashed: CSV file not found"
                ELSE "crashed: error initializing recommender"
    /\ UNCHANGED <<fs, np_tie, singletonVars, reco, request, response, normVars>>

\* GET /recommend, one request handled from start to end: the route reads
\* shared state only, so requests running at once do not affect each other
Request(req) ==
    /\ appPc = "serving"
    /\ request' = req
    /\ response' = Handle(req)
    /\ heap' = IF CallsRecommend(req)
               THEN [heap EXCEPT ![reco] =
                        RecommendEffect(@, QueryOf(req), TopNOf(req.top_n))]
               ELSE heap
    /\ UNCHANGED <<fs, np_tie, instances, lock, tpc, targ, calls, outcome, exc,
                   builds, returned, appPc, reco, normVars>>

MaxTopN == 4

TopNArgs ==
    {None, Text(<<"x">>), Text(<<"-", "1">>)}
        \cup {Text(<<DigitChars[n + 1]>>) : n \in 0..MaxTopN}

\* the requests sent: a matching text under q with every top_n, and the
\* text absent, empty, unnormalizable, or under another name
Requests ==
    {[q |-> Text(t), name |-> None, query |-> None, top_n |-> n] :
        t \in {<<"p", "y">>, <<"P", "y", " ", "g", "o">>}, n \in TopNArgs}
    \cup {[q |-> None, name |-> None, query |-> None, top_n |-> None],
          [q |-> Text(<<>>), name |-> None, query |-> None, top_n |-> None],
          [q |-> Text(<<"!", "?">>), name |-> None, query |-> None, top_n |-> None],
          [q |-> Text(<<"!", "?">>), name |-> None, query |-> None,
           top_n |-> Text(<<"2">>)],
          [q |-> None, name |-> Text(<<"g", "o">>), query |-> None, top_n |-> None],
          [q |-> Text(<<>>), name |-> None, query |-> Text(<<"p", "y">>),
           top_n |-> Text(<<"2">>)]}

IdleNorm ==
    /\ normIn = None
    /\ normPc = 0
    /\ normOut = <<>>
    /\ normOut2 = <<>>

Init ==
    /\ \E f \in CsvFiles :
        /\ fs = [p \in {CSV_PATH} |-> f]
        /\ np_tie \in IF f \in RankingFiles THEN {"low", "high"} ELSE {"low"}
    /\ heap = <<>>
    /\ instances = NoReco
    /\ lock = Free
    /\ tpc = [t \in {MainThread} |-> "idle"]
    /\ targ = [t \in {MainThread} |-> ""]
    /\ calls = [t \in {MainThread} |-> 0]
    /\ outcome = [t \in {MainThread} |-> NoReco]
    /\ exc = [t \in {MainThread} |-> ""]
    /\ builds = 0
    /\ returned = {}
    /\ appPc = "import"
    /\ reco = NoReco
    /\ request = NoRequest
    /\ response = NoResponse
    /\ IdleNorm

Next ==
    \/ AppImport
    \/ Acquire(MainThread)
    \/ Check(MainThread)
    \/ Build(MainThread)
    \/ Release(MainThread)
    \/ Unwind(MainThread)
    \/ Return(MainThread)
    \/ AppLoaded
    \/ AppInitFailed
    \/ \E req \in Requests : Request(req)

Spec == Init /\ [][Next]_vars

(***************************************************************************)
(* Concurrent callers of create_recommender.                               *)
(***************************************************************************)
NumThreads == 2
MaxCalls == 2

Threads == 1..NumThreads
Paths == {"a.csv", "b.csv", "gone.csv"}

\* create_recommender(csv_path), from any thread not inside a call
Call(t, csv_path) ==
    /\ tpc[t] \in {"idle", "returned", "raised"}
    /\ calls[t] < MaxCalls
    /\ Enter(t, csv_path)
    /\ UNCHANGED <<fs, np_tie, appVars, normVars>>

SingletonInit ==
    /\ fs = [p \in Paths |->
               CASE p = "a.csv" -> Table(<< <<"T", "i", "t", "l", "e">> >>,
                                         << <<Text(<<"P", "y">>)>> >>)
                 [] p = "b.csv" -> Table(<< <<"T", "i", "t", "l", "e">> >>,
                                         << <<Text(<<"G", "o">>)>>, <<Text(<<"P", "y">>)>> >>)
                 [] OTHER -> AbsentFile]
    /\ np_tie = "low"
    /\ heap = <<>>
    /\ instances = NoReco
    /\ lock = Free
    /\ tpc = [t \in Threads |-> "idle"]
    /\ targ = [t \in Threads |-> ""]
    /\ calls = [t \in Threads |-> 0]
    /\ outcome = [t \in Threads |-> NoReco]
    /\ exc = [t \in Threads |-> ""]
    /\ builds = 0
    /\ returned = {}
    /\ appPc = "off"
    /\ reco = NoReco
    /\ request = NoRequest
    /\ response = NoResponse
    /\ IdleNorm

SingletonNext ==
    \E t \in Threads :
        \/ \E p \in Paths : Call(t, p)
        \/ Acquire(t)
        \/ Check(t)
        \/ Build(t)
        \/ Release(t)
        \/ Unwind(t)
        \/ Return(t)

SpecSingleton == SingletonInit /\ [][SingletonNext]_vars

(***************************************************************************)
(* The normalizer on its own: every string over NormChars up to MaxLen,    *)
(* and a missing value, normalized once and then once more.                *)
(***************************************************************************)
MaxLen == 4

NormChars == {"a", "Z", "7", " ", "!", "\t"}

RECURSIVE StringsUpTo(_, _)
StringsUpTo(chars, n) ==
    IF n = 0 THEN {<<>>}
    ELSE LET shorter == StringsUpTo(chars, n - 1)
         IN shorter \cup {Append(s, c) : s \in shorter, c \in chars}

NormInputs == {None, NaN} \cup {Text(s) : s \in StringsUpTo(NormChars, MaxLen)}

NormInit ==
    /\ fs = <<>>
    /\ np_tie = "low"
    /\ heap = <<>>
    /\ instances = NoReco
    /\ lock = Free
    /\ tpc = <<>>
    /\ targ = <<>>
    /\ calls = <<>>
    /\ outcome = <<>>
    /\ exc = <<>>
    /\ builds = 0
    /\ returned = {}
    /\ appPc = "off"
    /\ reco = NoReco
    /\ request = NoRequest
    /\ response = NoResponse
    /\ normIn \in NormInputs
    /\ normPc = 0
    /\ normOut = <<>>
    /\ normOut2 = <<>>

\* q = self._clean_text(s)
NormalizeOnce ==
    /\ normPc = 0
    /\ normOut' = CleanText(normIn)
    /\ normPc' = 1
    /\ UNCHANGED <<fs, np_tie, singletonVars, appVars, normIn, normOut2>>

\* self._clean_text(q): the normalizer applied to its own output
NormalizeAgain ==
    /\ normPc = 1
    /\ normOut2' = CleanText(Text(normOut))
    /\ normPc' = 2
    /\ UNCHANGED <<fs, np_tie, singletonVars, appVars, normIn, normOut>>

NormNext == NormalizeOnce \/ NormalizeAgain

SpecNorm == NormInit /\ [][NormNext]_vars

(***************************************************************************)
(* The claims.                                                             *)
(***************************************************************************)

\* the Recommender the app serves from, and what the last request asked of it
Served == heap[reco]
AskedText == QueryOf(request)
AskedTopN == TopNOf(request.top_n)
CorpusSize == Len(Served.df.rows)

\* the scores of the last request, one per catalog row
AskedScores ==
    LinearKernel(Transform(Served.vectorizer, CleanText(AskedText)), Served.tfidf_matrix)

\* the last request reached reco.recommend and has been answered
Answered == appPc = "serving" /\ response.status # 0 /\ CallsRecommend(request)

\* C1: in every interleaving of concurrent create_recommender calls, with
\* equal or different paths, _load_data completes at most once, and every
\* call that returns, returns the one stored instance.
C1_OneBuildOneInstance ==
    /\ builds <= 1
    /\ Cardinality(returned) <= 1
    /\ NoReco \notin returned
    /\ \A t \in DOMAIN tpc : tpc[t] = "returned" => outcome[t] = instances

\* C1's case: two threads called with different paths, one of them for the
\* second time, and both hold the same instance of the one build.
C1_Witness ==
    /\ DOMAIN tpc = Threads
    /\ \E t, u \in Threads :
        /\ t # u
        /\ tpc[t] = "returned" /\ tpc[u] = "returned"
        /\ targ[t] # targ[u]
        /\ outcome[t] = outcome[u]
        /\ calls[u] = 2
    /\ builds = 1

C3_NonIncreasingScores ==
    Answered =>
        \A p \in 1..(Len(response.results) - 1) :
            response.results[p].score >= response.results[p + 1].score

\* C3's case: three results of three different scores.
C3_Witness ==
    /\ Answered
    /\ Len(response.results) = 3
    /\ response.results[1].score > response.results[2].score
    /\ response.results[2].score > response.results[3].score

\* C4: the rows returned are pairwise distinct, each result carries the
\* score of its row, and no row left out scores strictly higher than a row
\* returned.
C4_TopScoresReturned ==
    (Answered /\ response.status = 200) =>
        /\ \A p, r \in DOMAIN response.top_idx :
              response.top_idx[p] = response.top_idx[r] => p = r
        /\ \A p \in DOMAIN response.top_idx :
              response.results[p].score = AskedScores[response.top_idx[p]]
        /\ \A i \in DOMAIN Served.df.rows \ Range(response.top_idx) :
              \A p \in DOMAIN response.results :
                  AskedScores[i] <= response.results[p].score

\* C4's case: one row is returned out of three, the other two score
\* strictly lower, and the best row is not the first of the catalog.
C4_Witness ==
    /\ Answered
    /\ CorpusSize = 3
    /\ Len(response.results) = 1
    /\ response.top_idx[1] # 1
    /\ \A i \in (1..3) \ {response.top_idx[1]} :
          AskedScores[i] < response.results[1].score

\* some text argument was supplied with the last request
TextSupplied == \E a \in {request.q, request.name, request.query} : a.kind = "str"

\* C5: /recommend answers with the error object only when the text argument
\* is absent entirely; a text that is supplied but empty or unnormalizable
\* gets a success response with an empty result list.
C5_ErrorOnlyWhenTextAbsent ==
    (appPc = "serving" /\ response.status # 0) =>
        /\ response.status # 200 => ~TextSupplied
        /\ (TextSupplied /\ CleanText(AskedText) = <<>>) =>
              (response.status = 200 /\ response.results = <<>>)

\* C6: when a description column is detected, a row whose description is
\* missing gets Cleaned Text equal to normalize(title).
C6_MissingDescriptionAddsNothing ==
    \A id \in DOMAIN heap :
        LET self == heap[id]
        IN self.mapping.desc # NoCol =>
            \A i \in DOMAIN self.df.rows :
                IsNa(Cell(self.df, i, self.mapping.desc)) =>
                    Combined(self.df, self.mapping.desc)[i]
                        = CleanText(Cell(self.df, i, TitleColumn))

\* C7: for every hit, a rating or url that is missing for that row (no such
\* column, or the cell missing) is null in the result, and is no error.
C7_MissingFieldIsNull ==
    Answered =>
        /\ response.status = 200
        /\ \A p \in DOMAIN response.top_idx :
            LET i == response.top_idx[p]
            IN /\ (Served.rating_col = NoCol \/ IsNa(Cell(Served.df, i, Served.rating_col)))
                    => response.results[p].rating = None
               /\ (Served.url_col = NoCol \/ IsNa(Cell(Served.df, i, Served.url_col)))
                    => response.results[p].url = None

\* C8: a request is served only after the index build completed; when the
\* load fails, the exception is re-raised, the app never serves and no
\* request is answered.
C8_NoServingWithoutBuild ==
    /\ (appPc = "serving" \/ response # NoResponse) =>
        /\ builds = 1
        /\ exc[MainThread] = ""
        /\ reco # NoReco
        /\ reco \in DOMAIN heap
    /\ exc[MainThread] # "" => (appPc # "serving" /\ response = NoResponse)
    /\ appPc = "crashed: CSV file not found" => exc[MainThread] = "FileNotFoundError"
    /\ appPc = "crashed: error initializing recommender" =>
          exc[MainThread] \notin {"", "FileNotFoundError"}

\* C8's case: the load failed on a file that is there but yields no index,
\* and the import of the app stopped on the exception.
C8_Witness ==
    /\ appPc = "crashed: error initializing recommender"
    /\ exc[MainThread] = "ValueError"
    /\ builds = 0
    /\ response = NoResponse

C10_NormalizerIdempotentAndClean ==
    /\ normPc >= 1 =>
        /\ Range(normOut) \subseteq AllowedChars
        /\ normOut # <<>> => (normOut[1] # " " /\ normOut[Len(normOut)] # " ")
        /\ \A i \in 1..(Len(normOut) - 1) : ~(normOut[i] = " " /\ normOut[i + 1] = " ")
    /\ normPc = 2 => normOut2 = normOut

\* C10's case: an input with upper case, a run of symbols next to a space,
\* and a digit, normalized twice.
C10_Witness ==
    /\ normPc = 2
    /\ normIn = Text(<<"Z", "!", " ", "7">>)
    /\ normOut = <<"z", " ", "7">>
====
